---- MODULE Spec2Model ----
(***************************************************************************)
(* Model of the VLF sferic logger:                                         *)
(*   - record_stream_to_file (producer callback / consumer loop),          *)
(*   - run_night_recording with next_window_start and window_end_for,      *)
(*   - the block-streamed loop of plot_spectrogram.                        *)
(* Audio samples are modelled by their identity (the position of the       *)
(* sample in the delivered stream or in the file), so that every lost,     *)
(* repeated or reordered sample is visible.                                *)
(***************************************************************************)
EXTENDS Integers, Sequences, FiniteSets, TLC

\* ---------------------------------------------------------------- bounds
MaxDuration == 3      \* largest duration_seconds passed to the recorder
MaxFs == 2            \* largest sample rate (frames per second) of the recorder
MaxBlockFrames == 3   \* largest block the driver delivers in one callback
MaxSamples == 8       \* the driver stops delivering after this many frames
MaxSegmentHours == 3  \* largest SEGMENT_HOURS configured
MaxTotalHours == 12   \* largest TOTAL_HOURS configured
MaxOversleep == 1     \* seconds a sleep may last longer than asked
MaxFileFrames == 10   \* largest input file of plot_spectrogram, in frames
MaxNperseg == 4       \* largest analysis window
MaxBlockSeconds == 3  \* largest block_seconds
MaxRate == 2          \* largest sample rate of an input file
MaxRuns == 2          \* analyzer runs executing at the same time

\* ------------------------------------------------------------ time units
DAY == 86400          \* timedelta(days=1), in seconds
HOUR == 3600          \* timedelta(hours=1), in seconds
MINUTE == 60

\* ------------------------------------------------------------- variables
VARIABLES
  \* record_stream_to_file
  rpc,              \* position of the consumer in record_stream_to_file
  q,                \* queue.Queue of blocks
  indata,           \* the driver's input buffer handed to the callback
  data,             \* local 'data' of the consumer loop
  written,          \* local 'written'
  frames_to_write,  \* local 'frames_to_write'
  fileOpen,         \* the SoundFile is open
  streamOpen,       \* the InputStream is open (callbacks are delivered)
  fileData,         \* frames written to the segment file, in order
  delivered,        \* every frame the driver delivered to callback, in order
  statusLog,        \* number of "Stream status" messages printed
  \* configuration of the logger (module constants of the source)
  WINDOW_START,     \* clock time, seconds since midnight
  WINDOW_END,       \* clock time, seconds since midnight
  TOTAL_HOURS,
  SEGMENT_HOURS,
  \* run_night_recording
  npc,              \* position in run_night_recording
  clock,            \* the wall clock (a datetime, in seconds)
  now,              \* local 'now': the last value read from the clock
  start_dt,
  end_dt,
  segment_start,
  segments,
  attempted,        \* the segments attempted so far, in order
  errors,           \* number of "Error during recording" messages printed
  \* plot_spectrogram: the file and the arguments
  samplerate,       \* info.samplerate
  total_samples,    \* info.frames
  nperseg,
  noverlap,
  block_seconds,
  start_sec,        \* None or a number of seconds
  duration_sec,     \* None or a number of seconds
  last_minutes,     \* None or a number of minutes
  \* plot_spectrogram: locals and effects
  spc,              \* position in plot_spectrogram
  start_frame,
  segment_frames,
  n_time,
  frames_per_block,
  frames_read,
  frame_cursor,
  carry,            \* samples kept from the previous block
  spec_mm,          \* the memmap: one entry per column
  infoRead,         \* sf.info has read the input file's metadata
  memmapExists,     \* the buffer file exists on disk
  memmapCreated,    \* this call has created the buffer file
  imageWritten,     \* plt.savefig has written the image
  raisedError,      \* the error the call raised, "" if none
  \* plot_spectrogram: the renderer
  content,          \* what the input file holds (decides the dB values)
  db_range,         \* None or a number of dB
  plow,
  phigh,
  vmin,             \* in hundredths of a dB
  vmax,             \* in hundredths of a dB
  \* analyzer runs that execute at the same time
  runs,             \* per run: position, input file, output and buffer path
  disk              \* per buffer path: the run whose buffer file is there, 0 if none

recVars == <<rpc, q, indata, data, written, frames_to_write, fileOpen,
             streamOpen, fileData, delivered, statusLog>>

cfgVars == <<WINDOW_START, WINDOW_END, TOTAL_HOURS, SEGMENT_HOURS>>

nightVars == <<npc, clock, now, start_dt, end_dt, segment_start, segments,
               attempted, errors>>

plotArgs == <<samplerate, total_samples, nperseg, noverlap, block_seconds,
              start_sec, duration_sec, last_minutes>>

plotVars == <<spc, start_frame, segment_frames, n_time, frames_per_block,
              frames_read, frame_cursor, carry, spec_mm, infoRead,
              memmapExists, memmapCreated, imageWritten, raisedError>>

renderVars == <<content, db_range, plow, phigh, vmin, vmax>>

runsVars == <<runs, disk>>

notRecVars == <<cfgVars, nightVars, plotArgs, plotVars, renderVars, runsVars>>

notNightVars == <<recVars, plotArgs, plotVars, renderVars, runsVars>>

notPlotVars == <<recVars, cfgVars, nightVars, runsVars>>

notRunsVars == <<recVars, cfgVars, nightVars, plotArgs, plotVars, renderVars>>

vars == <<recVars, cfgVars, nightVars, plotArgs, plotVars, renderVars,
          runsVars>>

\* ------------------------------------------------------------- helpers
RECURSIVE Flatten(_)
Flatten(blocks) ==
  IF blocks = <<>> THEN <<>> ELSE Head(blocks) \o Flatten(Tail(blocks))

IsPrefix(s, t) ==
  /\ Len(s) <= Len(t)
  /\ \A i \in 1..Len(s) : s[i] = t[i]

Min(a, b) == IF a <= b THEN a ELSE b
Max(a, b) == IF a >= b THEN a ELSE b

\* --------------------------------------------------------- configuration
\* clock times a deployment may configure (the source has 18:00 and 06:00)
ClockChoices == {0, 6 * HOUR, 18 * HOUR, 23 * HOUR + 59 * MINUTE}

\* the values written in the source
SourceConfig ==
  /\ WINDOW_START = 18 * HOUR
  /\ WINDOW_END = 6 * HOUR
  /\ TOTAL_HOURS = 12
  /\ SEGMENT_HOURS = 1

AnyConfig ==
  /\ WINDOW_START \in ClockChoices
  /\ WINDOW_END \in ClockChoices
  /\ TOTAL_HOURS \in 1..MaxTotalHours
  /\ SEGMENT_HOURS \in 1..MaxSegmentHours

\* ------------------------------------------------------- WindowScheduler
\* datetime.date(), datetime.combine(date, time)
DateOf(dt) == dt \div DAY
ClockOf(dt) == dt % DAY
Combine(d, t) == d * DAY + t

next_window_start_strict(n) ==
  LET today_start == Combine(DateOf(n), WINDOW_START) IN
    IF n < today_start THEN today_start ELSE today_start + DAY
next_window_start(n) ==
  LET today_start == Combine(DateOf(n), WINDOW_START) IN
    IF n <= today_start THEN today_start ELSE today_start + DAY

window_end_same_day(s) ==
  Combine(DateOf(s), WINDOW_END)
window_end_for(s) ==
  LET next_day == DateOf(s) + 1 IN Combine(next_day, WINDOW_END)

\* dt.strftime("%Y%m%d_%H%M%S"): date, hour, minute, second
timestamp_for_file(dt) ==
  <<DateOf(dt), ClockOf(dt) \div HOUR, (ClockOf(dt) % HOUR) \div MINUTE,
    ClockOf(dt) % MINUTE>>

\* ------------------- the state of a part of the program that is not running
IdleRec ==
  /\ rpc = "idle"
  /\ q = <<>>
  /\ indata = <<>>
  /\ data = <<>>
  /\ written = 0
  /\ frames_to_write = 0
  /\ fileOpen = FALSE
  /\ streamOpen = FALSE
  /\ fileData = <<>>
  /\ delivered = <<>>
  /\ statusLog = 0

IdleNight ==
  /\ npc = "idle"
  /\ clock = 0
  /\ now = 0
  /\ start_dt = 0
  /\ end_dt = 0
  /\ segment_start = 0
  /\ segments = 0
  /\ attempted = <<>>
  /\ errors = 0

None == <<>>
Some(v) == <<v>>

\* the input files given on the command line: <<stem, extension>>
WavFiles == {<<"night1", ".wav">>, <<"night2", ".wav">>}

\* out = args.filename.replace(".wav", "_spectrogram.png")
OutputFor(filename) ==
  IF filename[2] = ".wav" THEN <<filename[1], "_spectrogram.png">>
                          ELSE filename

\* os.path.join(tmp_dir, f".{os.path.basename(output)}.spectrogram.memmap")
TmpPathFor(output) == <<".", output[1], output[2], ".spectrogram.memmap">>

BufferPaths == {TmpPathFor(OutputFor(f)) : f \in WavFiles}

IdleRuns ==
  /\ runs = [r \in 1..MaxRuns |->
               [pc |-> "idle", filename |-> <<>>, output |-> <<>>,
                path |-> <<>>]]
  /\ disk = [p \in BufferPaths |-> 0]

IdleRender ==
  /\ content = "constant"
  /\ db_range = None
  /\ plow = 1
  /\ phigh = 99
  /\ vmin = 0
  /\ vmax = 0

IdlePlot ==
  /\ samplerate = 1
  /\ total_samples = 0
  /\ nperseg = 1
  /\ noverlap = 0
  /\ block_seconds = 1
  /\ start_sec = None
  /\ duration_sec = None
  /\ last_minutes = None
  /\ spc = "idle"
  /\ start_frame = 0
  /\ segment_frames = 0
  /\ n_time = 0
  /\ frames_per_block = 0
  /\ frames_read = 0
  /\ frame_cursor = 0
  /\ carry = <<>>
  /\ spec_mm = <<>>
  /\ infoRead = FALSE
  /\ memmapExists = FALSE
  /\ memmapCreated = FALSE
  /\ imageWritten = FALSE
  /\ raisedError = ""
  /\ IdleRender

\* ------------------------------------------------ record_stream_to_file
\* A queue item is a Python object: either an array of its own (a copy) or
\* the driver's buffer itself (a reference, which reads as whatever the
\* driver has put there since).
NoCopy(buf) == [ref |-> TRUE, val |-> <<>>]
Copy(buf) == [ref |-> FALSE, val |-> buf]

Deref(item) == IF item.ref THEN indata ELSE item.val

\* data[:remaining] when len(data) > remaining
NoTruncate(d, remaining) == d
Truncate(d, remaining) ==
  IF Len(d) > remaining THEN SubSeq(d, 1, remaining) ELSE d

\* if status: print(...), then q.put(item) in either case
PutUnlessStatus(queue, status, item) ==
  IF status THEN queue ELSE Append(queue, item)
Put(queue, status, item) == Append(queue, item)

\* the driver fills its buffer with the next 'frames' frames and calls
\* callback(indata, frames, time_info, status)
callbackBounded(frames, status) ==
  /\ streamOpen
  /\ Len(q) < 1
  /\ Len(delivered) + frames <= MaxSamples
  /\ LET blk == [i \in 1..frames |-> Len(delivered) + i] IN
       /\ indata' = blk
       /\ statusLog' = IF status THEN statusLog + 1 ELSE statusLog
       /\ q' = Put(q, status, Copy(blk))
       /\ delivered' = delivered \o blk
  /\ UNCHANGED <<rpc, data, written, frames_to_write, fileOpen, streamOpen,
                 fileData, notRecVars>>
callback(frames, status) ==
  /\ streamOpen
  /\ Len(delivered) + frames <= MaxSamples
  /\ LET blk == [i \in 1..frames |-> Len(delivered) + i] IN
       /\ indata' = blk
       /\ statusLog' = IF status THEN statusLog + 1 ELSE statusLog
       /\ q' = Put(q, status, Copy(blk))
       /\ delivered' = delivered \o blk
  /\ UNCHANGED <<rpc, data, written, frames_to_write, fileOpen, streamOpen,
                 fileData, notRecVars>>

\* leaving the 'with' block: InputStream.__exit__, then SoundFile.__exit__
LeakyExit(raised) ==
  /\ streamOpen' = FALSE
  /\ fileOpen' = IF raised THEN fileOpen ELSE FALSE
WithExit(raised) ==
  /\ streamOpen' = FALSE
  /\ fileOpen' = FALSE

\* sf.SoundFile(filename, mode="w", ...) succeeds
OpenFile ==
  /\ rpc = "open_file"
  /\ fileOpen' = TRUE
  /\ rpc' = "open_stream"
  /\ UNCHANGED <<q, indata, data, written, frames_to_write, streamOpen,
                 fileData, delivered, statusLog, notRecVars>>

\* sf.SoundFile(...) raises: nothing was opened
OpenFileFails ==
  /\ rpc = "open_file"
  /\ rpc' = "raised"
  /\ UNCHANGED <<q, indata, data, written, frames_to_write, fileOpen,
                 streamOpen, fileData, delivered, statusLog, notRecVars>>

\* sd.InputStream(...) is created and started
OpenStream ==
  /\ rpc = "open_stream"
  /\ streamOpen' = TRUE
  /\ rpc' = "loop"
  /\ UNCHANGED <<q, indata, data, written, frames_to_write, fileOpen,
                 fileData, delivered, statusLog, notRecVars>>

\* sd.InputStream(...) raises: the file's __exit__ runs
OpenStreamFails ==
  /\ rpc = "open_stream"
  /\ WithExit(TRUE)
  /\ rpc' = "raised"
  /\ UNCHANGED <<q, indata, data, written, frames_to_write, fileData,
                 delivered, statusLog, notRecVars>>

\* while written < frames_to_write: data = q.get()   (blocks while empty)
Get ==
  /\ rpc = "loop"
  /\ written < frames_to_write
  /\ q # <<>>
  /\ data' = Deref(Head(q))
  /\ q' = Tail(q)
  /\ rpc' = "got"
  /\ UNCHANGED <<indata, written, frames_to_write, fileOpen, streamOpen,
                 fileData, delivered, statusLog, notRecVars>>

\* remaining = ...; truncate; file.write(data); written += len(data)
Write ==
  /\ rpc = "got"
  /\ LET remaining == frames_to_write - written
         d == Truncate(data, remaining) IN
       /\ fileData' = fileData \o d
       /\ written' = written + Len(d)
       /\ data' = d
  /\ rpc' = "loop"
  /\ UNCHANGED <<q, indata, frames_to_write, fileOpen, streamOpen,
                 delivered, statusLog, notRecVars>>

\* file.write(data) raises (disk full, I/O error): the with block unwinds
WriteFails ==
  /\ rpc = "got"
  /\ WithExit(TRUE)
  /\ rpc' = "raised"
  /\ UNCHANGED <<q, indata, data, written, frames_to_write, fileData,
                 delivered, statusLog, notRecVars>>

\* the loop condition is false: print "Saved", leave the with block
LoopExit ==
  /\ rpc = "loop"
  /\ ~(written < frames_to_write)
  /\ WithExit(FALSE)
  /\ rpc' = "returned"
  /\ UNCHANGED <<q, indata, data, written, frames_to_write, fileData,
                 delivered, statusLog, notRecVars>>

InitRec ==
  /\ IdleRuns
  /\ SourceConfig
  /\ IdleNight
  /\ IdlePlot
  /\ rpc = "open_file"
  /\ q = <<>>
  /\ indata = <<>>
  /\ data = <<>>
  /\ written = 0
  /\ \E duration_seconds \in 0..MaxDuration, fs \in 1..MaxFs :
       frames_to_write = duration_seconds * fs
  /\ fileOpen = FALSE
  /\ streamOpen = FALSE
  /\ fileData = <<>>
  /\ delivered = <<>>
  /\ statusLog = 0

Deliver == \E frames \in 1..MaxBlockFrames, status \in BOOLEAN :
             callback(frames, status)

NextRec ==
  \/ OpenFile
  \/ OpenFileFails
  \/ OpenStream
  \/ OpenStreamFails
  \/ Deliver
  \/ Get
  \/ Write
  \/ WriteFails
  \/ LoopExit

SpecRec == InitRec /\ [][NextRec]_vars

\* the consumer thread keeps running and the driver keeps calling the
\* callback while the stream is open
SpecRecLive ==
  /\ InitRec
  /\ [][NextRec]_vars
  /\ WF_vars(OpenFile)
  /\ WF_vars(OpenStream)
  /\ WF_vars(Deliver)
  /\ WF_vars(Get)
  /\ WF_vars(Write)
  /\ WF_vars(LoopExit)

\* --------------------------------------------------- run_night_recording
\* now = datetime.now(); start_dt = next_window_start(now); if now < start_dt
NightStart ==
  /\ npc = "n_start"
  /\ now' = clock
  /\ start_dt' = next_window_start(clock)
  /\ npc' = IF clock < start_dt' THEN "n_wait" ELSE "n_window"
  /\ UNCHANGED <<clock, end_dt, segment_start, segments, attempted, errors,
                 cfgVars, notNightVars>>

\* the argument of _time.sleep
SleepSecondsUncapped(n) == Max(1, start_dt - n)
SleepSeconds(n) == Min(60, Max(1, start_dt - n))

\* while True: now = datetime.now(); if now >= start_dt: break
WaitBreak ==
  /\ npc = "n_wait"
  /\ clock >= start_dt
  /\ now' = clock
  /\ npc' = "n_window"
  /\ UNCHANGED <<clock, start_dt, end_dt, segment_start, segments, attempted,
                 errors, cfgVars, notNightVars>>

\* ... otherwise _time.sleep(min(60, max(1, int(remaining seconds))))
WaitSleep ==
  /\ npc = "n_wait"
  /\ clock < start_dt
  /\ now' = clock
  /\ \E extra \in 0..MaxOversleep : clock' = clock + SleepSeconds(clock) + extra
  /\ UNCHANGED <<npc, start_dt, end_dt, segment_start, segments, attempted,
                 errors, cfgVars, notNightVars>>

\* end_dt = window_end_for(start_dt); segment_start = start_dt; segments = 0
NightWindow ==
  /\ npc = "n_window"
  /\ end_dt' = window_end_for(start_dt)
  /\ segment_start' = start_dt
  /\ segments' = 0
  /\ npc' = "n_loop"
  /\ UNCHANGED <<clock, now, start_dt, attempted, errors, cfgVars, notNightVars>>

\* while segment_start < end_dt and segments < TOTAL_HOURS
LoopConditionNoCap == segment_start < end_dt
LoopCondition == segment_start < end_dt /\ segments < TOTAL_HOURS

\* segment_seconds = SEGMENT_HOURS * 3600
segment_seconds == SEGMENT_HOURS * HOUR

\* segment_end = min(segment_start + timedelta(hours=SEGMENT_HOURS), end_dt)
SegmentEndUnclamped(s) == s + segment_seconds
SegmentEnd(s) == Min(s + segment_seconds, end_dt)

\* segment_start = segment_end; segments += 1
Advance(segment_end) ==
  /\ segment_start' = segment_end
  /\ segments' = segments + 1
  /\ npc' = "n_loop"

\* except Exception as e: print(...), then the statements after the try
Reraise(segment_end) ==
  /\ errors' = errors + 1
  /\ segment_start' = segment_start
  /\ segments' = segments
  /\ npc' = "n_done"
OnException(segment_end) ==
  /\ errors' = errors + 1
  /\ Advance(segment_end)

\* one iteration of the capture loop; 'ok' is whether record_stream_to_file
\* returned, 'elapsed' the seconds it ran for before it raised
Segment(ok, elapsed) ==
  /\ npc = "n_loop"
  /\ LoopCondition
  /\ LET segment_end == SegmentEnd(segment_start)
         duration == segment_end - segment_start
         ts == timestamp_for_file(segment_start) IN
       /\ attempted' = Append(attempted,
                              [start |-> segment_start, end |-> segment_end,
                               duration |-> duration, name |-> ts])
       /\ IF ok
            THEN /\ clock' = clock + duration
                 /\ errors' = errors
                 /\ Advance(segment_end)
            ELSE /\ clock' = clock + Min(elapsed, duration)
                 /\ OnException(segment_end)
  /\ UNCHANGED <<now, start_dt, end_dt, cfgVars, notNightVars>>

SegmentRecorded == Segment(TRUE, 0)

SegmentFails == \E early \in BOOLEAN :
                  Segment(FALSE, IF early THEN 0 ELSE segment_seconds)

\* the loop condition is false: print "Night recording complete."
NightDone ==
  /\ npc = "n_loop"
  /\ ~LoopCondition
  /\ npc' = "n_done"
  /\ UNCHANGED <<clock, now, start_dt, end_dt, segment_start, segments,
                 attempted, errors, cfgVars, notNightVars>>

\* seconds before (negative) or after today's WINDOW_START at which the
\* program is started
StartOffsets == {-125, -60, -1, 0}

TotalHoursChoices == {1, 3, MaxTotalHours}

InitNight ==
  /\ IdleRuns
  /\ IdleRec
  /\ IdlePlot
  /\ WINDOW_START \in ClockChoices
  /\ WINDOW_END \in ClockChoices
  /\ TOTAL_HOURS \in TotalHoursChoices
  /\ SEGMENT_HOURS \in 1..MaxSegmentHours
  /\ npc = "n_start"
  /\ \E off \in StartOffsets : clock = Combine(1, WINDOW_START) + off
  /\ now = 0
  /\ start_dt = 0
  /\ end_dt = 0
  /\ segment_start = 0
  /\ segments = 0
  /\ attempted = <<>>
  /\ errors = 0

NextNight ==
  \/ NightStart
  \/ WaitBreak
  \/ WaitSleep
  \/ NightWindow
  \/ SegmentRecorded
  \/ SegmentFails
  \/ NightDone

SpecNight == InitNight /\ [][NextNight]_vars

\* the same program when time.sleep returns and the loop is scheduled: the
\* wall clock keeps advancing and each statement of the function is reached
SpecNightLive ==
  /\ InitNight /\ [][NextNight]_vars
  /\ WF_vars(NightStart) /\ WF_vars(WaitSleep) /\ WF_vars(WaitBreak)
  /\ WF_vars(NightWindow) /\ WF_vars(SegmentRecorded) /\ WF_vars(NightDone)

\* ------------------------------------- the scheduler functions on their own
SchedClocks == {0, 1, 6 * HOUR, 18 * HOUR - 1, 18 * HOUR, 18 * HOUR + 1,
                23 * HOUR + 59 * MINUTE, DAY - 1}

InitSched ==
  /\ IdleRuns
  /\ IdleRec
  /\ IdlePlot
  /\ AnyConfig
  /\ npc = "s_init"
  /\ \E d \in 0..1, t \in SchedClocks : clock = Combine(d, t)
  /\ now = clock
  /\ start_dt = 0
  /\ end_dt = 0
  /\ segment_start = 0
  /\ segments = 0
  /\ attempted = <<>>
  /\ errors = 0

\* start_dt = next_window_start(now)
SchedNextWindowStart ==
  /\ npc = "s_init"
  /\ start_dt' = next_window_start(now)
  /\ npc' = "s_start"
  /\ UNCHANGED <<clock, now, end_dt, segment_start, segments, attempted,
                 errors, cfgVars, notNightVars>>

\* end_dt = window_end_for(start_dt), for the start just computed
SchedWindowEnd ==
  /\ npc = "s_start"
  /\ end_dt' = window_end_for(start_dt)
  /\ npc' = "s_end"
  /\ UNCHANGED <<clock, now, start_dt, segment_start, segments, attempted,
                 errors, cfgVars, notNightVars>>

\* window_end_for applied to an arbitrary start datetime
SchedWindowEndOfAny ==
  /\ npc = "s_init"
  /\ start_dt' = now
  /\ end_dt' = window_end_for(now)
  /\ npc' = "s_end"
  /\ UNCHANGED <<clock, now, segment_start, segments, attempted, errors,
                 cfgVars, notNightVars>>

NextSched ==
  \/ SchedNextWindowStart
  \/ SchedWindowEnd
  \/ SchedWindowEndOfAny

SpecSched == InitSched /\ [][NextSched]_vars

\* ------------------------------------------------------ plot_spectrogram
\* hop = nperseg - noverlap
hop == nperseg - noverlap

\* the call raises: the rest of the function body is skipped
Raise(err) ==
  /\ spc' = "p_raised"
  /\ raisedError' = err

\* info = sf.info(filename)
ReadInfo ==
  /\ spc = "p_info"
  /\ infoRead' = TRUE
  /\ spc' = "p_range"
  /\ UNCHANGED <<start_frame, segment_frames, n_time, frames_per_block,
                 frames_read, frame_cursor, carry, spec_mm, memmapExists,
                 memmapCreated, imageWritten, raisedError, plotArgs,
                 notPlotVars, renderVars>>

\* duration_sec after the selection: last_minutes * 60 overrides the argument
ResolvedDuration ==
  IF last_minutes # None THEN Some(last_minutes[1] * 60) ELSE duration_sec

\* int(start_sec * samplerate), where start_sec is
\* max(0, total_samples / samplerate - duration_sec) under last_minutes
\* (exact arithmetic)
ResolvedStartFrameNoOverride ==
  IF start_sec = None THEN 0 ELSE start_sec[1] * samplerate
ResolvedStartFrame ==
  IF last_minutes # None
    THEN Max(0, total_samples - ResolvedDuration[1] * samplerate)
    ELSE IF start_sec = None THEN 0 ELSE start_sec[1] * samplerate

\* frames_available and segment_frames of the selection
ResolvedSegmentFrames ==
  LET frames_available == Max(0, total_samples - ResolvedStartFrame) IN
    IF ResolvedDuration = None
      THEN frames_available
      ELSE Min(ResolvedDuration[1] * samplerate, frames_available)

\* the messages of the two ValueErrors of the selection
RangeErrors == {"start_sec is beyond end of file",
                "No audio to process in the requested segment"}

\* the selection of the range, and its two ValueErrors
ResolveRangeUnchecked ==
  /\ spc = "p_range"
  /\ start_frame' = ResolvedStartFrame
  /\ segment_frames' = ResolvedSegmentFrames
  /\ spc' = "p_hop"
  /\ UNCHANGED <<n_time, frames_per_block, frames_read, frame_cursor, carry,
                 spec_mm, infoRead, memmapExists, memmapCreated,
                 imageWritten, raisedError, plotArgs, notPlotVars, renderVars>>
ResolveRange ==
  /\ spc = "p_range"
  /\ LET sf == ResolvedStartFrame
         seg == ResolvedSegmentFrames
     IN
       IF sf >= total_samples
         THEN /\ Raise("start_sec is beyond end of file")
              /\ start_frame' = sf
              /\ UNCHANGED segment_frames
         ELSE /\ start_frame' = sf
              /\ segment_frames' = seg
              /\ IF seg <= 0
                   THEN Raise("No audio to process in the requested segment")
                   ELSE spc' = "p_hop" /\ UNCHANGED raisedError
  /\ UNCHANGED <<n_time, frames_per_block, frames_read, frame_cursor, carry,
                 spec_mm, infoRead, memmapExists, memmapCreated,
                 imageWritten, plotArgs, notPlotVars, renderVars>>

\* if hop <= 0: raise ValueError
CheckHop ==
  /\ spc = "p_hop"
  /\ IF hop <= 0
       THEN Raise("noverlap must be smaller than nperseg")
       ELSE spc' = "p_alloc" /\ UNCHANGED raisedError
  /\ UNCHANGED <<start_frame, segment_frames, n_time, frames_per_block,
                 frames_read, frame_cursor, carry, spec_mm, infoRead,
                 memmapExists, memmapCreated, imageWritten, plotArgs,
                 notPlotVars, renderVars>>

\* expected number of time frames for the selected segment
ExpectedColumns ==
  IF segment_frames >= nperseg
    THEN 1 + (segment_frames - nperseg) \div hop
    ELSE 1

\* remove a stale buffer file, create the memmap, set up the streaming
Allocate ==
  /\ spc = "p_alloc"
  /\ n_time' = ExpectedColumns
  /\ memmapExists' = TRUE
  /\ memmapCreated' = TRUE
  /\ spec_mm' = [k \in 1..Max(ExpectedColumns, 1) |-> <<>>]
  /\ frames_per_block' = Max(block_seconds * samplerate, nperseg)
  /\ frame_cursor' = 0
  /\ carry' = <<>>
  /\ spc' = "p_open"
  /\ UNCHANGED <<start_frame, segment_frames, frames_read, infoRead,
                 imageWritten, raisedError, plotArgs, notPlotVars, renderVars>>

\* with sf.SoundFile(filename, mode="r") as snd: snd.seek(start_frame)
OpenSound ==
  /\ spc = "p_open"
  /\ frames_read' = 0
  /\ spc' = "p_stream"
  /\ UNCHANGED <<start_frame, segment_frames, n_time, frames_per_block,
                 frame_cursor, carry, spec_mm, infoRead, memmapExists,
                 memmapCreated, imageWritten, raisedError, plotArgs,
                 notPlotVars, renderVars>>

\* opening or seeking the input file raises
OpenSoundFails ==
  /\ spc = "p_open"
  /\ Raise("error opening the input file")
  /\ UNCHANGED <<start_frame, segment_frames, n_time, frames_per_block,
                 frames_read, frame_cursor, carry, spec_mm, infoRead,
                 memmapExists, memmapCreated, imageWritten, plotArgs,
                 notPlotVars, renderVars>>

\* the frames [first, first + count) of the input file; a sample is named
\* by its position in the file
FileFrames(first, count) == [i \in 1..count |-> first + i - 1]

\* the columns scipy's spectrogram computes from x: one per hop-spaced
\* window of nperseg samples; a column is named by the samples of its window
Columns(x) ==
  LET n == IF Len(x) >= nperseg THEN 1 + (Len(x) - nperseg) \div hop ELSE 0
  IN [k \in 1..n |-> SubSeq(x, (k - 1) * hop + 1, (k - 1) * hop + nperseg)]

\* carry = x[used_len - noverlap:used_len].copy()
CarryOf(x, used_len) == SubSeq(x, used_len - noverlap + 1, used_len)

\* spec_mm[:, frame_cursor:end_cursor] = Sxx_db[:, :end_cursor - frame_cursor]
WriteColumnsFromZero(mm, cursor, end_cursor, cols) ==
  [k \in 1..Len(mm) |->
     IF k <= end_cursor - cursor THEN cols[k] ELSE mm[k]]
WriteColumns(mm, cursor, end_cursor, cols) ==
  [k \in 1..Len(mm) |->
     IF k > cursor /\ k <= end_cursor THEN cols[k - cursor] ELSE mm[k]]

\* if frame_cursor >= spec_mm.shape[1]: break
NoFilledBreak(cursor, mm) == FALSE
FilledBreak(cursor, mm) == cursor >= Len(mm)

\* one iteration of the streaming loop; the selected range lies inside the
\* file, so snd.read returns the to_read frames it is asked for
StreamBlock ==
  /\ spc = "p_stream"
  /\ frames_read < segment_frames
  /\ LET to_read == Min(frames_per_block, segment_frames - frames_read)
         block == FileFrames(start_frame + frames_read, to_read)
         x == carry \o block
         n_frames == IF Len(x) >= nperseg
                       THEN 1 + (Len(x) - nperseg) \div hop ELSE 0
         used_len == IF Len(x) >= nperseg
                       THEN nperseg + (n_frames - 1) * hop ELSE 0
         Sxx_db == Columns(SubSeq(x, 1, used_len))
         end_cursor == Min(frame_cursor + Len(Sxx_db), Len(spec_mm))
     IN
       /\ frames_read' = frames_read + to_read
       /\ IF n_frames > 0
            THEN /\ spec_mm' = WriteColumns(spec_mm, frame_cursor,
                                            end_cursor, Sxx_db)
                 /\ frame_cursor' = end_cursor
                 /\ carry' = CarryOf(x, used_len)
            ELSE /\ carry' = x
                 /\ UNCHANGED <<spec_mm, frame_cursor>>
       /\ spc' = IF FilledBreak(frame_cursor', spec_mm) THEN "p_render"
                                                        ELSE "p_stream"
  /\ UNCHANGED <<start_frame, segment_frames, n_time, frames_per_block,
                 infoRead, memmapExists, memmapCreated, imageWritten,
                 raisedError, plotArgs, notPlotVars, renderVars>>

\* snd.read raises
ReadFails ==
  /\ spc = "p_stream"
  /\ frames_read < segment_frames
  /\ Raise("error reading the input file")
  /\ UNCHANGED <<start_frame, segment_frames, n_time, frames_per_block,
                 frames_read, frame_cursor, carry, spec_mm, infoRead,
                 memmapExists, memmapCreated, imageWritten, plotArgs,
                 notPlotVars, renderVars>>

\* while frames_read < segment_frames is false
StreamEnd ==
  /\ spc = "p_stream"
  /\ ~(frames_read < segment_frames)
  /\ spc' = "p_render"
  /\ UNCHANGED <<start_frame, segment_frames, n_time, frames_per_block,
                 frames_read, frame_cursor, carry, spec_mm, infoRead,
                 memmapExists, memmapCreated, imageWritten, raisedError,
                 plotArgs, notPlotVars, renderVars>>

\* n_freq = nperseg // 2 + 1
n_freq == nperseg \div 2 + 1

\* what the input file may hold: silence, a varying signal, samples that
\* are all NaN, or a signal with NaN samples in part of it
ContentKinds == {"constant", "varied", "nan", "partly_nan"}

\* the value 20 * log10(max(magnitude, 1e-12)) stored for frequency bin f of
\* the column computed from the window col, in dB, and whether it is finite
\* (a window with NaN samples gives NaN)
CellDb(kind, f, col) ==
  CASE kind = "constant" -> [finite |-> TRUE, db |-> -240]
    [] kind = "varied" -> [finite |-> TRUE, db |-> -10 * ((col[1] + 2 * f) % 5)]
    [] kind = "nan" -> [finite |-> FALSE, db |-> 0]
    [] OTHER -> [finite |-> col[1] % 2 = 0, db |-> -10 * ((col[1] + 2 * f) % 5)]

\* img_view[finite_mask]: the finite values of spec_mm[:, :frame_cursor]
FiniteValues(kind) ==
  LET cells == [i \in 1..(n_freq * frame_cursor) |->
                  CellDb(kind, ((i - 1) % n_freq) + 1,
                         spec_mm[((i - 1) \div n_freq) + 1])]
      IsFinite(c) == c.finite
      finite == SelectSeq(cells, IsFinite)
  IN [i \in 1..Len(finite) |-> finite[i].db]

\* the k-th smallest value of vals, k counted from 0
Kth(vals, k) ==
  CHOOSE v \in {vals[i] : i \in 1..Len(vals)} :
    /\ Cardinality({i \in 1..Len(vals) : vals[i] < v}) <= k
    /\ k < Cardinality({i \in 1..Len(vals) : vals[i] <= v})

\* np.nanpercentile(vals, p) with linear interpolation, in hundredths
Percentile(vals, p) ==
  LET pos == p * (Len(vals) - 1)
      lo == pos \div 100
      hi == Min(lo + 1, Len(vals) - 1)
  IN Kth(vals, lo) * 100 + (pos % 100) * (Kth(vals, hi) - Kth(vals, lo))

\* if vmin >= vmax: vmax = vmin + 1.0
NoNudge(lo, hi) == hi
Nudge(lo, hi) == IF lo >= hi THEN lo + 100 ELSE hi

\* the dynamic range <<vmin, vmax>> in hundredths of a dB
DynamicRange(kind, range, pl, ph) ==
  LET vals == FiniteValues(kind) IN
    IF vals # <<>>
      THEN LET hi == Percentile(vals, ph)
               lo == IF range # None THEN hi - range[1] * 100
                                     ELSE Percentile(vals, pl)
           IN <<lo, Nudge(lo, hi)>>
      ELSE <<-12000, 0>>

\* the renderer's arguments: <<db_range, plow, phigh>>
RenderArgs ==
  {<<None, 1, 99>>, <<None, 99, 1>>, <<Some(30), 1, 99>>, <<Some(-10), 1, 99>>}

\* scaling, imshow, savefig and close succeed
Render ==
  /\ spc = "p_render"
  /\ \E kind \in ContentKinds, a \in RenderArgs :
       /\ content' = kind
       /\ db_range' = a[1]
       /\ plow' = a[2]
       /\ phigh' = a[3]
       /\ vmin' = DynamicRange(kind, a[1], a[2], a[3])[1]
       /\ vmax' = DynamicRange(kind, a[1], a[2], a[3])[2]
  /\ imageWritten' = TRUE
  /\ spc' = "p_cleanup"
  /\ UNCHANGED <<start_frame, segment_frames, n_time, frames_per_block,
                 frames_read, frame_cursor, carry, spec_mm, infoRead,
                 memmapExists, memmapCreated, raisedError, plotArgs,
                 notPlotVars>>

\* float(max_freq), imshow or savefig raises
RenderFails ==
  /\ spc = "p_render"
  /\ Raise("error while rendering")
  /\ UNCHANGED <<start_frame, segment_frames, n_time, frames_per_block,
                 frames_read, frame_cursor, carry, spec_mm, infoRead,
                 memmapExists, memmapCreated, imageWritten, plotArgs,
                 notPlotVars, renderVars>>

\* del spec_mm; os.remove(tmp_memmap_path); print; return
Cleanup ==
  /\ spc = "p_cleanup"
  /\ memmapExists' = FALSE
  /\ spc' = "p_returned"
  /\ UNCHANGED <<start_frame, segment_frames, n_time, frames_per_block,
                 frames_read, frame_cursor, carry, spec_mm, infoRead,
                 memmapCreated, imageWritten, raisedError, plotArgs,
                 notPlotVars, renderVars>>

\* the input files: <<sample rate, frames>>; short files at every rate, and
\* files of one minute and of a little more than a minute at 1 Hz
InputFiles ==
  {<<r, n>> : r \in 1..MaxRate, n \in 0..MaxFileFrames}
    \cup {<<1, 60>>, <<1, 60 + MaxFileFrames>>}

OptionalSeconds(values) == {None} \cup {Some(v) : v \in values}

InitPlot ==
  /\ IdleRec
  /\ IdleRuns
  /\ SourceConfig
  /\ IdleNight
  /\ \E f \in InputFiles : samplerate = f[1] /\ total_samples = f[2]
  /\ nperseg \in 2..MaxNperseg
  /\ noverlap \in 0..nperseg
  /\ block_seconds \in 1..MaxBlockSeconds
  /\ start_sec \in OptionalSeconds({1, 20})
  /\ duration_sec \in OptionalSeconds({0, 3})
  /\ last_minutes \in OptionalSeconds({1})
  /\ spc = "p_info"
  /\ start_frame = 0
  /\ segment_frames = 0
  /\ n_time = 0
  /\ frames_per_block = 0
  /\ frames_read = 0
  /\ frame_cursor = 0
  /\ carry = <<>>
  /\ spec_mm = <<>>
  /\ infoRead = FALSE
  /\ memmapExists \in BOOLEAN
  /\ memmapCreated = FALSE
  /\ imageWritten = FALSE
  /\ raisedError = ""
  /\ IdleRender

NextPlot ==
  \/ ReadInfo
  \/ ResolveRange
  \/ CheckHop
  \/ Allocate
  \/ OpenSound
  \/ OpenSoundFails
  \/ StreamBlock
  \/ ReadFails
  \/ StreamEnd
  \/ Render
  \/ RenderFails
  \/ Cleanup

SpecPlot == InitPlot /\ [][NextPlot]_vars

\* the same call when the streaming loop keeps running: a read of the
\* input file returns and the loop condition is evaluated again
SpecPlotLive ==
  /\ InitPlot /\ [][NextPlot]_vars
  /\ WF_vars(StreamBlock) /\ WF_vars(StreamEnd)

\* --------------------------------- analyzer runs executing at the same time
\* The steps of plot_spectrogram that touch the buffer file, for each of
\* several runs started from the command line.

\* __main__: parse the arguments, derive the output name
RunStart(r) ==
  /\ runs[r].pc = "r_start"
  /\ \E f \in WavFiles :
       runs' = [runs EXCEPT ![r].pc = "r_path", ![r].filename = f,
                            ![r].output = OutputFor(f)]
  /\ UNCHANGED <<disk, notRunsVars>>

\* tmp_memmap_path = ...
RunPath(r) ==
  /\ runs[r].pc = "r_path"
  /\ runs' = [runs EXCEPT ![r].pc = "r_stale",
                          ![r].path = TmpPathFor(runs[r].output)]
  /\ UNCHANGED <<disk, notRunsVars>>

\* if os.path.exists(tmp_memmap_path): os.remove(tmp_memmap_path)
RunCleanStale(r) ==
  /\ runs[r].pc = "r_stale"
  /\ disk' = [disk EXCEPT ![runs[r].path] = 0]
  /\ runs' = [runs EXCEPT ![r].pc = "r_create"]
  /\ UNCHANGED notRunsVars

\* np.memmap(tmp_memmap_path, mode="w+", ...): create or truncate
RunCreate(r) ==
  /\ runs[r].pc = "r_create"
  /\ disk' = [disk EXCEPT ![runs[r].path] = r]
  /\ runs' = [runs EXCEPT ![r].pc = "r_stream"]
  /\ UNCHANGED notRunsVars

\* the streaming loop fills the buffer
RunStream(r) ==
  /\ runs[r].pc = "r_stream"
  /\ runs' = [runs EXCEPT ![r].pc = "r_render"]
  /\ UNCHANGED <<disk, notRunsVars>>

\* the renderer reads the buffer and writes the image
RunRender(r) ==
  /\ runs[r].pc = "r_render"
  /\ runs' = [runs EXCEPT ![r].pc = "r_cleanup"]
  /\ UNCHANGED <<disk, notRunsVars>>

\* the streaming or the rendering raises: the run ends
RunRaises(r) ==
  /\ runs[r].pc \in {"r_stream", "r_render"}
  /\ runs' = [runs EXCEPT ![r].pc = "r_raised"]
  /\ UNCHANGED <<disk, notRunsVars>>

\* del spec_mm; if os.path.exists(tmp_memmap_path): os.remove(...)
RunCleanup(r) ==
  /\ runs[r].pc = "r_cleanup"
  /\ disk' = [disk EXCEPT ![runs[r].path] = 0]
  /\ runs' = [runs EXCEPT ![r].pc = "r_returned"]
  /\ UNCHANGED notRunsVars

InitRuns ==
  /\ IdleRec
  /\ SourceConfig
  /\ IdleNight
  /\ IdlePlot
  /\ runs = [r \in 1..MaxRuns |->
               [pc |-> "r_start", filename |-> <<>>, output |-> <<>>,
                path |-> <<>>]]
  /\ disk \in [BufferPaths -> {0}]

NextRuns ==
  \E r \in 1..MaxRuns :
    \/ RunStart(r)
    \/ RunPath(r)
    \/ RunCleanStale(r)
    \/ RunCreate(r)
    \/ RunStream(r)
    \/ RunRender(r)
    \/ RunRaises(r)
    \/ RunCleanup(r)

SpecRuns == InitRuns /\ [][NextRuns]_vars

\* ------------------------------------------- properties of the recorder
\* frames still waiting in the queue, in order
QFrames == Flatten([i \in 1..Len(q) |-> Deref(q[i])])

\* C2: the consumer never writes more than the target frame count
\* (duration_seconds * fs): the file holds exactly 'written' frames, never
\* more than frames_to_write, and when the loop exits normally the frames
\* written equal the target exactly.
C2_NeverOvershoots ==
  /\ written <= frames_to_write
  /\ Len(fileData) = written
  /\ rpc = "returned" => written = frames_to_write

\* a block that overshot the target has been cut and the call returned
C2_Witness ==
  /\ rpc = "returned"
  /\ frames_to_write > 0
  /\ Len(fileData) = frames_to_write
  /\ Len(fileData) + Len(QFrames) < Len(delivered)

\* C3: the frames in the segment file are, in order, the first frames of
\* the concatenation of the blocks the driver delivered; until the target
\* is reached nothing delivered is missing between the file, the block
\* in hand and the queue; when the call returns the file holds exactly
\* the first frames_to_write delivered frames.
C3_FileIsPrefixOfDelivered ==
  /\ IsPrefix(fileData, delivered)
  /\ rpc = "got" => fileData \o data \o QFrames = delivered
  /\ (rpc = "loop" /\ written < frames_to_write)
        => fileData \o QFrames = delivered
  /\ rpc = "returned" => fileData = SubSeq(delivered, 1, frames_to_write)

\* the recording finished after the driver had overwritten the buffer that
\* held the first block, with blocks still queued
C3_Witness ==
  /\ rpc = "returned"
  /\ Len(fileData) >= 3
  /\ Len(q) >= 1
  /\ \A i \in 1..Len(indata) : indata[i] # fileData[1]

\* C4: the segment file and the input stream are closed on every exit of
\* record_stream_to_file, normal or by an error.
C4_ClosedOnEveryExit ==
  rpc \in {"returned", "raised"} => (~fileOpen /\ ~streamOpen)

\* an error was raised by file.write after some frames had been written
C4_Witness ==
  /\ rpc = "raised"
  /\ written > 0
  /\ data # <<>>
  /\ ~fileOpen

\* ------------------------------------------ properties of the scheduler
CeilDiv(a, b) == (a + b - 1) \div b

\* D: the duration of the window
WindowDuration == end_dt - start_dt

\* C5: the capture loop attempts exactly min(ceil(D/S), M) segments, and
\* segment i (the last one included) is planned for min(S, D - (i-1)*S)
\* seconds: the last duration is clamped to the window time remaining.
C5_SegmentCount ==
  npc = "n_done" =>
    /\ segments = Min(CeilDiv(WindowDuration, segment_seconds), TOTAL_HOURS)
    /\ Len(attempted) = segments
    /\ \A i \in 1..Len(attempted) :
         attempted[i].duration =
           Min(segment_seconds, WindowDuration - (i - 1) * segment_seconds)

\* a night whose last segment was clamped to less than S
C5_Witness ==
  /\ npc = "n_done"
  /\ Len(attempted) >= 2
  /\ segments < TOTAL_HOURS
  /\ attempted[Len(attempted)].duration < segment_seconds

\* C6: the planned segments tile the window: the first starts at
\* window.start, each starts where the previous one ended, start times and
\* file names are distinct and increasing, no segment is longer than S or
\* extends past window.end, and when ceil(D/S) <= M the last one ends at
\* window.end; 18:00 to 06:00 with S = 1 h and M = 12 gives 12 one-hour
\* segments.
C6_SegmentsTileWindow ==
  npc \in {"n_loop", "n_done"} =>
    /\ Len(attempted) >= 1 => attempted[1].start = start_dt
    /\ \A i \in 2..Len(attempted) :
         /\ attempted[i].start = attempted[i - 1].end
         /\ attempted[i - 1].start < attempted[i].start
    /\ \A i, j \in 1..Len(attempted) :
         i # j => attempted[i].name # attempted[j].name
    /\ \A i \in 1..Len(attempted) :
         /\ attempted[i].start < attempted[i].end
         /\ attempted[i].end - attempted[i].start <= segment_seconds
         /\ attempted[i].end <= end_dt
    /\ (npc = "n_done"
        /\ CeilDiv(WindowDuration, segment_seconds) <= TOTAL_HOURS)
         => attempted[Len(attempted)].end = end_dt
    /\ (npc = "n_done" /\ WINDOW_START = 18 * HOUR /\ WINDOW_END = 6 * HOUR
        /\ SEGMENT_HOURS = 1 /\ TOTAL_HOURS = 12)
         => /\ Len(attempted) = 12
            /\ \A i \in 1..12 : attempted[i].duration = HOUR
            /\ attempted[12].end = end_dt

\* the night of the source's configuration is complete
C6_Witness ==
  /\ npc = "n_done"
  /\ WINDOW_START = 18 * HOUR /\ WINDOW_END = 6 * HOUR
  /\ SEGMENT_HOURS = 1 /\ TOTAL_HOURS = 12
  /\ Len(attempted) = 12

\* C7: a capture failure does not stop the night: once a capture has
\* raised, the loop has still advanced past every attempted segment, the
\* segments attempted start at the planned times start + (i-1)*S, and the
\* night ends only after the same number of segments as without failures.
C7_FailureDoesNotStopNight ==
  errors > 0 =>
    /\ segments = Len(attempted)
    /\ segment_start = attempted[Len(attempted)].end
    /\ \A i \in 1..Len(attempted) :
         attempted[i].start = start_dt + (i - 1) * segment_seconds
    /\ npc = "n_done" =>
         Len(attempted) =
           Min(CeilDiv(WindowDuration, segment_seconds), TOTAL_HOURS)

\* a night of several segments ended after some captures failed and some
\* did not
C7_Witness ==
  /\ npc = "n_done"
  /\ errors >= 2
  /\ errors < segments
  /\ segments >= 4

\* C8: next_window_start(now) is today's date at the configured start
\* clock time when now is at or before it and tomorrow's date at that
\* clock time otherwise; the result is >= now and its clock time is the
\* configured start time.
C8_NextWindowStart ==
  npc = "s_start" =>
    LET today_start == Combine(DateOf(now), WINDOW_START) IN
      /\ now <= today_start => start_dt = today_start
      /\ now > today_start => start_dt = Combine(DateOf(now) + 1, WINDOW_START)
      /\ start_dt >= now
      /\ ClockOf(start_dt) = WINDOW_START

\* now is exactly the configured start time of today
C8_Witness ==
  /\ npc = "s_start"
  /\ ClockOf(now) = WINDOW_START
  /\ start_dt = now
  /\ now > 0

\* C9: window_end_for(start) is the configured end clock time on the
\* calendar day after start's date, and start < end whatever clock times
\* are configured.
C9_WindowEnd ==
  npc = "s_end" =>
    /\ DateOf(end_dt) = DateOf(start_dt) + 1
    /\ ClockOf(end_dt) = WINDOW_END
    /\ start_dt < end_dt

\* a start late in the day with an end clock time at midnight
C9_Witness ==
  /\ npc = "s_end"
  /\ ClockOf(start_dt) = DAY - 1
  /\ WINDOW_END = 0
  /\ end_dt = start_dt + 1

\* ------------------------------------- properties of plot_spectrogram
\* the number of columns a single pass over the selected range produces
SinglePassColumns ==
  IF segment_frames >= nperseg
    THEN (segment_frames - nperseg) \div hop + 1
    ELSE 0

\* C1: for 0 < V < N and block size B >= N the streamed loop emits the
\* same columns as a single pass over the selected range: the same number
\* of columns, and column k computed from exactly the samples
\* [start_frame + k*hop, start_frame + k*hop + N), k counted from 0.
C1_StreamedEqualsSinglePass ==
  (spc = "p_render" /\ 0 < noverlap /\ noverlap < nperseg
   /\ frames_per_block >= nperseg) =>
    /\ frame_cursor = SinglePassColumns
    /\ \A k \in 0..(frame_cursor - 1) :
         spec_mm[k + 1] = FileFrames(start_frame + k * hop, nperseg)

\* C10: once plot_spectrogram has created its buffer file, the file no
\* longer exists when the call ends, by a return or by an error.
C10_BufferDeletedOnEveryExit ==
  (spc \in {"p_returned", "p_raised"} /\ memmapCreated) => ~memmapExists

\* C11: when hop = nperseg - noverlap <= 0 the call fails with the
\* configuration error before any file I/O: the metadata of the input file
\* is never read, no buffer file is created, and the error raised is the
\* configuration error whatever the other arguments are.
C11_HopCheckedBeforeIO ==
  hop <= 0 =>
    /\ ~infoRead
    /\ ~memmapCreated
    /\ spc = "p_raised" =>
         raisedError = "noverlap must be smaller than nperseg"

\* the selection is rejected by the code's two range checks
RangeIsBad == ResolvedStartFrame >= total_samples \/ ResolvedSegmentFrames <= 0

\* C12: when the resolved start frame is at or beyond the end of the file,
\* or the resolved range is empty, the call raises a range error and leaves
\* no output behind: it creates no buffer file and writes no image.
C12_RangeErrorLeavesNothing ==
  (spc \notin {"idle", "p_info", "p_range"} /\ RangeIsBad) =>
    /\ spc = "p_raised"
    /\ raisedError \in RangeErrors
    /\ ~memmapCreated
    /\ ~imageWritten
    /\ spec_mm = <<>>

\* a start offset beyond the end of a file that has frames was rejected
C12_Witness ==
  /\ spc = "p_raised"
  /\ raisedError = "start_sec is beyond end of file"
  /\ total_samples > 0
  /\ start_frame > total_samples
  /\ ~memmapCreated

\* the selection passed the range checks
RangeResolved ==
  /\ spc \notin {"idle", "p_info", "p_range"}
  /\ raisedError \notin RangeErrors

\* C13: last_minutes = K overrides start_sec and duration_sec: when K*60 s
\* is at most the file's duration the selected range is exactly the final
\* K*60*samplerate frames and ends at the last frame of the file; when
\* K*60 s exceeds the file's duration the start is clamped to 0 and the
\* whole file is selected.
C13_LastMinutesSelectsTail ==
  (RangeResolved /\ last_minutes # None) =>
    LET wanted == last_minutes[1] * 60 * samplerate IN
      IF wanted <= total_samples
        THEN /\ segment_frames = wanted
             /\ start_frame = total_samples - wanted
             /\ start_frame + segment_frames = total_samples
        ELSE /\ start_frame = 0
             /\ segment_frames = total_samples

\* the last minute of a longer file was selected although start_sec and
\* duration_sec were given too
C13_Witness ==
  /\ RangeResolved
  /\ last_minutes = Some(1)
  /\ start_sec # None
  /\ duration_sec # None
  /\ total_samples > 60 * samplerate
  /\ start_frame > 0
  /\ segment_frames = 60 * samplerate

\* C14: the dynamic range the renderer computes always satisfies
\* vmin < vmax: in percentile mode, in fixed-dB-range mode for any R
\* (R <= 0 included), when all finite values are equal (vmax is then
\* vmin + 1 dB) and when there is no finite value (the range is then
\* [-120, 0] dB).
C14_VminBelowVmax ==
  spc \in {"p_cleanup", "p_returned"} =>
    /\ vmin < vmax
    /\ FiniteValues(content) = <<>> => (vmin = -12000 /\ vmax = 0)
    /\ (content = "constant" /\ frame_cursor > 0 /\ db_range = None)
         => vmax = vmin + 100

\* a fixed range R <= 0 was given and columns with finite values exist
C14_Witness ==
  /\ spc = "p_returned"
  /\ db_range = Some(-10)
  /\ content = "varied"
  /\ frame_cursor >= 2
  /\ vmax = vmin + 100

\* run r has created its buffer and has not yet removed it
UsingBuffer(r) == runs[r].pc \in {"r_stream", "r_render", "r_cleanup"}

\* C15: two analyzer runs executing at the same time never use the same
\* buffer file: the buffer paths of two runs that both hold a buffer
\* differ, and the file at a run's path is the one that run created (no
\* other run has deleted or truncated it).
C15_BufferPathUniquePerRun ==
  \A a, b \in 1..MaxRuns :
    (a # b /\ UsingBuffer(a) /\ UsingBuffer(b)) =>
      /\ runs[a].path # runs[b].path
      /\ disk[runs[a].path] = a

\* C16: if the driver keeps delivering non-empty blocks (here: it delivers
\* at least the target), every call of record_stream_to_file ends; the
\* consumer can take a block whenever the queue is not empty, and the
\* callback can always put a block, whatever the length of the queue.
C16_RecordingEnds ==
  /\ (frames_to_write <= MaxSamples) => <>(rpc \in {"returned", "raised"})
  /\ []((rpc = "loop" /\ written < frames_to_write /\ q # <<>>)
          => ENABLED Get)
  /\ []((streamOpen /\ Len(delivered) < MaxSamples) => ENABLED Deliver)

\* the longest recording returned with the queue drained
C16_Witness ==
  /\ rpc = "returned"
  /\ frames_to_write = MaxDuration * MaxFs
  /\ written = frames_to_write
  /\ q = <<>>

\* C17: the time stamp in a segment's file name is the time its capture
\* starts: whenever the loop starts the capture of a segment, the wall
\* clock is not before the start time the file is named after, also for a
\* segment that follows a failed one.
C17_CaptureNotBeforeName ==
  [][(npc = "n_loop" /\ Len(attempted') = Len(attempted) + 1)
       => /\ attempted'[Len(attempted')].name = timestamp_for_file(segment_start)
          /\ clock >= segment_start]_vars

\* C18: no capture begins before the window start: past the wait loop the
\* wall clock is at or after start_dt, a capture starts only then, each
\* sleep of the wait loop is asked for 1 to 60 seconds and lasts that long
\* (plus the oversleep), and a waiting run eventually leaves the wait loop.
C18_WaitsForWindowStart ==
  /\ [](npc \in {"n_window", "n_loop", "n_done"} => clock >= start_dt)
  /\ []((npc = "n_wait" /\ clock < start_dt) => SleepSeconds(clock) \in 1..60)
  /\ [][(npc = "n_wait" /\ npc' = "n_wait")
          => /\ clock < start_dt
             /\ clock' - clock \in 1..(60 + MaxOversleep)]_vars
  /\ [][Len(attempted') = Len(attempted) + 1
          => /\ clock >= start_dt
             /\ attempted'[Len(attempted')].start >= start_dt]_vars
  /\ ((npc = "n_wait") ~> (npc = "n_window"))

\* a run that slept through the wait loop and left it past the window start
C18_Witness ==
  /\ npc = "n_window"
  /\ clock > start_dt
  /\ now >= start_dt

\* the buffer holds a column at index k (columns are counted from 1)
Written(k) == spec_mm[k] # <<>>

\* C19: while and after streaming 0 <= cursor <= expected column count and
\* the cursor never decreases; exactly the columns below the cursor are
\* written, the buffer keeps its size, and a written column never changes,
\* so each block writes the columns [cursor, new cursor) only.
C19_CursorAppendOnly ==
  /\ [](/\ frame_cursor >= 0
        /\ frame_cursor <= Len(spec_mm)
        /\ spec_mm # <<>> => Len(spec_mm) = n_time
        /\ \A k \in 1..Len(spec_mm) : Written(k) <=> k <= frame_cursor)
  /\ [][frame_cursor' >= frame_cursor]_vars
  /\ [][spec_mm # <<>>
          => /\ Len(spec_mm') = Len(spec_mm)
             /\ \A k \in 1..frame_cursor : spec_mm'[k] = spec_mm[k]
             /\ \A k \in 1..Len(spec_mm) :
                  spec_mm'[k] # spec_mm[k]
                    => k > frame_cursor /\ k <= frame_cursor']_vars

\* a buffer of three or more columns filled by more than one block
C19_Witness ==
  /\ spc = "p_render"
  /\ Len(spec_mm) >= 3
  /\ frame_cursor = Len(spec_mm)
  /\ frames_read > frames_per_block

\* C20: the streaming loop terminates: a call that is streaming eventually
\* leaves the loop; the range being read lies inside the file, an iteration
\* that stays in the loop has read at least one new frame and never more
\* than the range holds, and the loop is left as soon as the cursor has
\* reached the expected column count, also with frames still unread.
C20_StreamingTerminates ==
  /\ ((spc = "p_stream") ~> (spc \in {"p_render", "p_raised"}))
  /\ [](spc = "p_stream"
          => /\ start_frame + segment_frames <= total_samples
             /\ frames_read <= segment_frames
             /\ frame_cursor < Len(spec_mm))
  /\ [][(spc = "p_stream" /\ spc' = "p_stream")
          => frames_read' > frames_read]_vars
  /\ [][(spc = "p_stream" /\ frame_cursor' >= n_time)
          => spc' \in {"p_render", "p_raised"}]_vars

\* the loop was left on the full buffer with frames of the range unread
C20_Witness ==
  /\ spc = "p_render"
  /\ frame_cursor = n_time
  /\ frames_read > 0
  /\ frames_read < segment_frames

\* C21: a block delivered with a stream status flag is enqueued and written
\* like any other block: a call of the callback puts a copy of exactly the
\* delivered block at the end of the queue, with or without the flag, and
\* changes nothing else of the recording; the flag adds one log message;
\* and after flagged blocks nothing delivered is missing from the file and
\* the queue, up to the target.
C21_StatusOnlyLogs ==
  /\ [][delivered' # delivered
          => LET blk == SubSeq(delivered', Len(delivered) + 1, Len(delivered'))
             IN /\ delivered' = delivered \o blk
                /\ q' = Append(q, [ref |-> FALSE, val |-> blk])
                /\ statusLog' \in {statusLog, statusLog + 1}
                /\ UNCHANGED <<rpc, data, written, frames_to_write,
                               fileOpen, streamOpen, fileData>>]_vars
  /\ [][statusLog' # statusLog
          => /\ statusLog' = statusLog + 1
             /\ delivered' # delivered
             /\ Len(q') = Len(q) + 1]_vars
  /\ [](statusLog > 0
          => /\ (rpc = "loop" /\ written < frames_to_write)
                  => fileData \o QFrames = delivered
             /\ rpc = "returned"
                  => fileData = SubSeq(delivered, 1, frames_to_write))

\* a recording of three or more frames returned after every block came
\* with the flag (one frame per block), all of them in the file
C21_Witness ==
  /\ rpc = "returned"
  /\ statusLog = Len(delivered)
  /\ Len(fileData) >= 3
  /\ fileData = delivered

====
